---- MODULE Spec2Model ----
(***************************************************************************)
(* FOLD frame codec (src/fold/core/fractal.py) and the retrieve wrapper    *)
(* (src/fold/core/decoder.py).                                             *)
(*                                                                         *)
(* Representation.  A Python bit string ('0'/'1' characters) is a sequence *)
(* of the integers 0 and 1.  A bytes object is a sequence of integers in   *)
(* 0..255.  A numpy frame of shape (height, width, 3) is a function        *)
(* frame[y][x] = <<r, g, b>> with y in 0..height-1 and x in 0..width-1.    *)
(* A Python int that may need 32 bits (a length, a CRC-32) is a record     *)
(* [hi, lo] of two 16-bit limbs, value hi * 65536 + lo, because the model  *)
(* checker's integers stop at 2^31 - 1.  The outcome of a call is a record *)
(* [exc, msg, data]: exc = "none" and the returned bytes, or the exception *)
(* class and its message.                                                  *)
(***************************************************************************)
EXTENDS Integers, Sequences, FiniteSets, TLC

(* ------------------------------ bounds -------------------------------- *)

\* Longest payload, in bytes.
MaxLen == 2

\* Most extra frames a storage may append after the encoded ones.
MaxExtra == 1

\* Byte values payloads are drawn from: 0x00, 'h' (0x68), 0xFF.
Bytes == {0, 104, 255}

\* (width, height) of the codec instances: capacity 48 (below the 96-bit
\* header), 96 (exactly the header) and 108 (the header and 12 more bits).
Dims == {<<4, 4>>, <<8, 4>>, <<4, 9>>}

(* ------------------------- Python primitives -------------------------- *)

Min(a, b) == IF a < b THEN a ELSE b

\* s[a:b] for 0 <= a, 0 <= b (Python clamps the slice to the sequence).
Slice(s, a, b) == SubSeq(s, a + 1, Min(b, Len(s)))

\* s[a:]
SliceFrom(s, a) == SubSeq(s, a + 1, Len(s))

\* format(n, '0<w>b') for 0 <= n < 2^w: w binary digits, most significant
\* first.
RECURSIVE FormatBits(_, _)
FormatBits(n, w) ==
  IF w = 0 THEN <<>> ELSE Append(FormatBits(n \div 2, w - 1), n % 2)

\* int(bits, 2) for a non-empty bit string of at most 16 digits.
RECURSIVE ToNat(_)
ToNat(bits) ==
  IF bits = <<>> THEN 0
  ELSE 2 * ToNat(SubSeq(bits, 1, Len(bits) - 1)) + bits[Len(bits)]

\* An integer n >= 0 as a two-limb Python int.
PyInt(n) == [hi |-> n \div 65536, lo |-> n % 65536]

\* int(bits, 2) for a non-empty bit string of at most 32 digits.
IntOfBits(bits) ==
  IF Len(bits) <= 16 THEN [hi |-> 0, lo |-> ToNat(bits)]
  ELSE [hi |-> ToNat(SubSeq(bits, 1, Len(bits) - 16)),
        lo |-> ToNat(SubSeq(bits, Len(bits) - 15, Len(bits)))]

\* format(v, '032b') for a Python int v < 2^32.
Format32(v) == FormatBits(v.hi, 16) \o FormatBits(v.lo, 16)

\* n < v * 8 for a small integer n and a Python int v
\* (n < 8v  <=>  n div 8 < v, for integers).
LessThanTimes8(n, v) ==
  LET q == n \div 8
  IN  v.hi > q \div 65536 \/ (v.hi = q \div 65536 /\ v.lo > q % 65536)

(* ------------------------------ zlib.crc32 ---------------------------- *)
(* The table-driven CRC-32 of zlib.  A 32-bit register is a function reg   *)
(* on 0..31, reg[k] its bit k.                                             *)

\* The reflected CRC-32 polynomial 0xEDB88320, as the set of its one bits.
CrcPoly == {31, 30, 29, 27, 26, 24, 23, 21, 20, 19, 15, 9, 8, 5}

Xor(a, b) == IF a = b THEN 0 ELSE 1

\* c = (c >> 1) ^ (0xEDB88320 if c & 1 else 0), n times.
RECURSIVE CrcShift(_, _)
CrcShift(reg, n) ==
  IF n = 0 THEN reg
  ELSE LET c == CrcShift(reg, n - 1)
       IN  [k \in 0..31 |->
              Xor(IF k = 31 THEN 0 ELSE c[k + 1],
                  IF c[0] = 1 /\ k \in CrcPoly THEN 1 ELSE 0)]

\* zlib's crc_table: entry v is v shifted through the polynomial 8 times.
CrcTable ==
  [v \in 0..255 |->
     CrcShift([k \in 0..31 |-> IF k < 8 THEN (v \div (2 ^ k)) % 2 ELSE 0], 8)]

\* (reg ^ b) & 0xFF
CrcIndex(reg, b) ==
    Xor(reg[0], b % 2)
  + 2 * Xor(reg[1], (b \div 2) % 2)
  + 4 * Xor(reg[2], (b \div 4) % 2)
  + 8 * Xor(reg[3], (b \div 8) % 2)
  + 16 * Xor(reg[4], (b \div 16) % 2)
  + 32 * Xor(reg[5], (b \div 32) % 2)
  + 64 * Xor(reg[6], (b \div 64) % 2)
  + 128 * Xor(reg[7], (b \div 128) % 2)

\* crc = crc_table[(crc ^ b) & 0xFF] ^ (crc >> 8)
CrcUpdate(reg, b) ==
  LET entry == CrcTable[CrcIndex(reg, b)]
  IN  [k \in 0..31 |-> Xor(entry[k], IF k + 8 <= 31 THEN reg[k + 8] ELSE 0)]

RECURSIVE CrcBytes(_, _)
\* The register after the first n bytes, from the preset 0xFFFFFFFF.
CrcBytes(bytes, n) ==
  IF n = 0 THEN [k \in 0..31 |-> 1]
  ELSE CrcUpdate(CrcBytes(bytes, n - 1), bytes[n])

RECURSIVE RegValue(_, _, _)
\* Bits from..to of a register, as a number.
RegValue(reg, from, to) ==
  IF to < from THEN 0 ELSE 2 * RegValue(reg, from + 1, to) + reg[from]

\* zlib.crc32(bytes): the final register inverted.
crc32(bytes) ==
  LET reg == CrcBytes(bytes, Len(bytes))
      inv == [k \in 0..31 |-> 1 - reg[k]]
  IN  [hi |-> RegValue(inv, 16, 31), lo |-> RegValue(inv, 0, 15)]

(* --------------------------- FractalEncoder --------------------------- *)

\* ord(c) for the characters of the magic "FOLD".
Magic == <<70, 79, 76, 68>>

RECURSIVE FlattenBytes(_, _)
\* ''.join(format(b, '08b') for b in data[i-1:])
FlattenBytes(data, i) ==
  IF i > Len(data) THEN <<>>
  ELSE FormatBits(data[i], 8) \o FlattenBytes(data, i + 1)

\* FractalEncoder.__init__: pixels_per_frame = width * height; no check of
\* the dimensions is made here or in encode_data_to_pixels.
pixels_per_frame(w, h) == w * h

\* Mutant: the three channels of a cell forgotten.
bits_per_frame_pixels(w, h) == pixels_per_frame(w, h)

\* bits_per_frame = self.pixels_per_frame * 3
bits_per_frame(w, h) == pixels_per_frame(w, h) * 3

prepare_bit_string(data) ==
  LET checksum      == crc32(data)
      length        == PyInt(Len(data))
      magic_bits    == FlattenBytes(Magic, 1)
      length_bits   == Format32(length)
      checksum_bits == Format32(checksum)
      data_bits     == FlattenBytes(data, 1)
  IN  magic_bits \o length_bits \o checksum_bits \o data_bits

\* bit_string.ljust(total_bits, '0')
ljust(bit_string, total_bits) ==
  bit_string \o [k \in 1..(total_bits - Len(bit_string)) |-> 0]

\* Mutant: a one bit written as the value 1.
Level_one(bit) == IF bit = 1 THEN 1 ELSE 0

\* 255 if bit == '1' else 0
Level(bit) == IF bit = 1 THEN 255 ELSE 0

\* Mutant: the bound of the cell's three bits off by one, so that the last
\* cell of a full frame stays black.
bits_to_fractal_frame_off_by_one(w, h, bit_string) ==
  LET total_bits  == pixels_per_frame(w, h) * 3
      padded_bits == ljust(bit_string, total_bits)
  IN  [y \in 0..(h - 1) |->
        [x \in 0..(w - 1) |->
          LET bit_index == 3 * (y * w + x)
          IN  IF bit_index + 3 < Len(padded_bits)
              THEN <<Level(padded_bits[bit_index + 1]),
                     Level(padded_bits[bit_index + 2]),
                     Level(padded_bits[bit_index + 3])>>
              ELSE <<0, 0, 0>>]]

\* The loop advances bit_index by 3 in every cell that takes the first
\* branch and, once a cell takes the second, every later cell does too (the
\* index no longer moves): so in the cell (y, x) bit_index is
\* 3 * (y * width + x) whenever the first branch is taken.
bits_to_fractal_frame(w, h, bit_string) ==
  LET total_bits  == pixels_per_frame(w, h) * 3
      padded_bits == ljust(bit_string, total_bits)
  IN  [y \in 0..(h - 1) |->
        [x \in 0..(w - 1) |->
          LET bit_index == 3 * (y * w + x)
          IN  IF bit_index + 2 < Len(padded_bits)
              THEN <<Level(padded_bits[bit_index + 1]),
                     Level(padded_bits[bit_index + 2]),
                     Level(padded_bits[bit_index + 3])>>
              ELSE <<0, 0, 0>>]]

\* Mutant: the threshold exclusive.
Threshold_exclusive(value) == IF value > 128 THEN 1 ELSE 0

\* '1' if value >= 128 else '0'
Threshold(value) == IF value >= 128 THEN 1 ELSE 0

fractal_frame_to_bits(w, h, frame) ==
  [k \in 1..((w * h) * 3) |->
     LET cell == (k - 1) \div 3
     IN  Threshold(frame[cell \div w][cell % w][((k - 1) % 3) + 1])]

Raise(exc, msg) == [exc |-> exc, msg |-> msg, data |-> <<>>]
Return(data) == [exc |-> "none", msg |-> "", data |-> data]

InvalidLiteral == Raise("ValueError", "invalid literal for int() with base 2: ''")

RECURSIVE BytesOfBits(_, _)
\* bytes(int(bits[i:i+8], 2) for i in range(i, len(bits), 8))
BytesOfBits(bits, i) ==
  IF i >= Len(bits) THEN <<>>
  ELSE <<ToNat(Slice(bits, i, i + 8))>> \o BytesOfBits(bits, i + 8)

\* Mutant: the checksum is not compared.
validate_checksum_skipped(data_bytes, checksum_bits) == Return(data_bytes)

\* Lines 97-104: validate the checksum and return the data.
validate_checksum(data_bytes, checksum_bits) ==
  LET calculated_checksum == crc32(data_bytes)
  IN  IF checksum_bits = <<>> THEN InvalidLiteral
      ELSE IF calculated_checksum # IntOfBits(checksum_bits)
      THEN Raise("ValueError", "Data corruption detected - checksum mismatch")
      ELSE Return(data_bytes)

\* Mutant: every bit after the header taken as data.
extract_data_all(length, data_bits) == BytesOfBits(data_bits, 0)

\* Lines 93-95: the first expected_data_bits bits of data_bits, as bytes.
\* Only reached with len(data_bits) >= expected_data_bits, so the product
\* is small.
extract_data(length, data_bits) ==
  LET expected_data_bits == (length.hi * 65536 + length.lo) * 8
      actual_data_bits   == Slice(data_bits, 0, expected_data_bits)
  IN  BytesOfBits(actual_data_bits, 0)

\* Lines 86-104: get the length and validate, extract, validate the checksum.
validate_length(length_bits, checksum_bits, data_bits) ==
  IF length_bits = <<>> THEN InvalidLiteral
  ELSE LET length == IntOfBits(length_bits)
       IN  IF LessThanTimes8(Len(data_bits), length)
           THEN Raise("ValueError", "Incomplete data")
           ELSE validate_checksum(extract_data(length, data_bits),
                                  checksum_bits)

\* Mutant: the length validated before the magic.
parse_bit_string_length_first(bit_string) ==
  LET magic_bits    == Slice(bit_string, 0, 32)
      length_bits   == Slice(bit_string, 32, 64)
      checksum_bits == Slice(bit_string, 64, 96)
      data_bits     == SliceFrom(bit_string, 96)
  IN  IF length_bits # <<>>
         /\ LessThanTimes8(Len(data_bits), IntOfBits(length_bits))
      THEN Raise("ValueError", "Incomplete data")
      ELSE IF \E n \in {0, 8, 16, 24} : Slice(magic_bits, n, n + 8) = <<>>
      THEN InvalidLiteral
      ELSE IF [j \in 1..4 |-> ToNat(Slice(magic_bits, 8 * (j - 1), 8 * j))]
                # Magic
      THEN Raise("ValueError", "Invalid FOLD file format")
      ELSE validate_length(length_bits, checksum_bits, data_bits)

parse_bit_string(bit_string) ==
  LET magic_bits    == Slice(bit_string, 0, 32)
      length_bits   == Slice(bit_string, 32, 64)
      checksum_bits == Slice(bit_string, 64, 96)
      data_bits     == SliceFrom(bit_string, 96)
  IN  IF \E n \in {0, 8, 16, 24} : Slice(magic_bits, n, n + 8) = <<>>
      THEN InvalidLiteral
      ELSE IF [j \in 1..4 |-> ToNat(Slice(magic_bits, 8 * (j - 1), 8 * j))]
                # Magic
      THEN Raise("ValueError", "Invalid FOLD file format")
      ELSE validate_length(length_bits, checksum_bits, data_bits)

RECURSIVE ConcatFrameBits(_, _, _, _)
\* for frame in frames[i-1:]: bit_string += self._fractal_frame_to_bits(frame)
ConcatFrameBits(w, h, frames, i) ==
  IF i > Len(frames) THEN <<>>
  ELSE fractal_frame_to_bits(w, h, frames[i])
         \o ConcatFrameBits(w, h, frames, i + 1)

decode_pixels_to_data(w, h, frames) ==
  parse_bit_string(ConcatFrameBits(w, h, frames, 1))

(* ------------------------------ decoder.py ---------------------------- *)

\* cv2.cvtColor(frame, cv2.COLOR_RGB2BGR) and cv2.COLOR_BGR2RGB: both swap
\* the first and the third channel of every cell.
cvtColor(frame) ==
  [y \in DOMAIN frame |->
    [x \in DOMAIN frame[y] |->
      <<frame[y][x][3], frame[y][x][2], frame[y][x][1]>>]]

\* _read_video_frames on a file holding the BGR frames `file`; `isOpened` is
\* cap.isOpened().  Every exception raised in the body, FileCorruptionError
\* included, is caught by `except Exception` and re-raised as DecodingError.
read_video_frames(isOpened, file) ==
  IF ~isOpened
  THEN [exc |-> "DecodingError",
        msg |-> "Failed to read video frames: Failed to open video file",
        frames |-> <<>>]
  ELSE LET frames == [k \in 1..Len(file) |-> cvtColor(file[k])]
       IN  IF frames = <<>>
           THEN [exc |-> "DecodingError",
                 msg |-> "Failed to read video frames: Video contains no decodable frames",
                 frames |-> <<>>]
           ELSE [exc |-> "none", msg |-> "", frames |-> frames]

\* retrieve(video_path) for a valid path to a file holding `file`.
retrieve(isOpened, file) ==
  LET read == read_video_frames(isOpened, file)
  IN  IF read.exc # "none"
      THEN \* a DecodingError is not a FileCorruptionError: `except Exception`
           Raise("DecodingError", "Failed to decode video: " \o read.msg)
      ELSE IF read.frames = <<>>
      THEN Raise("FileCorruptionError", "No frames found in video")
      ELSE
      LET frames0 == read.frames[1]
          h       == Cardinality(DOMAIN frames0)
          w       == Cardinality(DOMAIN frames0[0])
          dec     == decode_pixels_to_data(w, h, read.frames)
      IN  IF dec.exc = "ValueError"
          THEN Raise("FileCorruptionError",
                     "Data corruption detected: " \o dec.msg)
          ELSE dec

(* ------------------------------- the state ---------------------------- *)

VARIABLES
  width, height,   \* the codec instance's dimensions
  data,            \* the payload handed to encode_data_to_pixels
  pc,              \* "start", "encoding", "encoded", "stored", "decoded",
                   \* "retrieved"
  bit_string,      \* the generator's local bit_string
  i,               \* the generator's loop variable
  frames,          \* the frames yielded so far
  raised,          \* the exception the generator raised, or "none"
  video,           \* the RGB frames the storage hands back
  tamper,          \* what the storage did to the encoded frames
  opened,          \* cap.isOpened() in _read_video_frames
  result           \* the outcome of decode_pixels_to_data or of retrieve

vars == <<width, height, data, pc, bit_string, i, frames, raised, video,
          tamper, opened, result>>

RECURSIVE SeqsUpTo(_, _)
\* All sequences over S of length at most n.
SeqsUpTo(S, n) ==
  IF n = 0 THEN {<<>>}
  ELSE LET shorter == SeqsUpTo(S, n - 1)
       IN  shorter \cup {Append(s, b) : s \in {t \in shorter : Len(t) = n - 1}, b \in S}

\* A payload whose CRC-32 register ends at zero (its CRC-32 is 0xFFFFFFFF):
\* zero bytes appended to it leave the CRC-32 unchanged.
CrcZeroPayload == <<255, 255, 255, 255>>

Payloads == SeqsUpTo(Bytes, MaxLen) \cup {CrcZeroPayload}

NoTamper == [kind |-> "none", f |-> 0, y |-> 0, x |-> 0, c |-> 0, v |-> 0,
             magic |-> <<>>, length |-> PyInt(0), checksum |-> PyInt(0)]

NoResult == Raise("pending", "")

Init ==
  /\ \E d \in Dims : width = d[1] /\ height = d[2]
  /\ data \in Payloads
  /\ pc = "start"
  /\ bit_string = <<>>
  /\ i = 0
  /\ frames = <<>>
  /\ raised = "none"
  /\ video = <<>>
  /\ tamper = NoTamper
  /\ opened = TRUE
  /\ result = NoResult

(* ------------------- encode_data_to_pixels (generator) ---------------- *)

\* First next(): the body runs up to the loop.
EncodeBegin ==
  /\ pc = "start"
  /\ bit_string' = prepare_bit_string(data)
  /\ i' = 0
  /\ pc' = "encoding"
  /\ UNCHANGED <<width, height, data, frames, raised, video, tamper, opened,
                 result>>

\* One iteration of `for i in range(0, len(bit_string), bits_per_frame)`.
EncodeYield ==
  /\ pc = "encoding"
  /\ i < Len(bit_string)
  /\ LET chunk == Slice(bit_string, i, i + bits_per_frame(width, height))
     IN  frames' = Append(frames, bits_to_fractal_frame(width, height, chunk))
  /\ i' = i + bits_per_frame(width, height)
  /\ UNCHANGED <<width, height, data, pc, bit_string, raised, video, tamper,
                 opened, result>>

\* The range is exhausted: the generator returns.
EncodeStop ==
  /\ pc = "encoding"
  /\ i >= Len(bit_string)
  /\ pc' = "encoded"
  /\ UNCHANGED <<width, height, data, bit_string, i, frames, raised, video,
                 tamper, opened, result>>

(* ------------------------- what storage hands back -------------------- *)
(* decode_pixels_to_data and retrieve take frames that come from outside   *)
(* the codec (decoder.py reads them with cv2.VideoCapture).  The actions   *)
(* below enumerate such inputs, each derived from the encoder's output and *)
(* recorded in `tamper`.                                                   *)

\* Bits one frame of the codec instance carries.
Capacity == width * height * 3

Stored(v, t) ==
  /\ pc = "encoded"
  /\ video' = v
  /\ tamper' = t
  /\ pc' = "stored"
  /\ UNCHANGED <<width, height, data, bit_string, i, frames, raised, opened,
                 result>>

\* A loss-free round trip.
StoreLossless == Stored(frames, [NoTamper EXCEPT !.kind = "lossless"])

\* The frame with every channel re-levelled without crossing 128: a channel
\* at or above 128 becomes hi[p], one below becomes lo[p], p the parity of
\* x + c.
Drifted(frame, lo, hi) ==
  [y \in DOMAIN frame |->
    [x \in DOMAIN frame[y] |->
      [c \in 1..3 |->
        IF frame[y][x][c] >= 128 THEN hi[((x + c) % 2) + 1]
                                   ELSE lo[((x + c) % 2) + 1]]]]

\* Intensity drift that keeps every channel on its side of 128.
StoreDrift ==
  \E lo \in {0, 127} \X {0, 127}, hi \in {128, 255} \X {128, 255} :
    Stored([k \in 1..Len(frames) |-> Drifted(frames[k], lo, hi)],
           [NoTamper EXCEPT !.kind = "drift"])

\* One channel of one frame replaced by the nearest value on the other
\* side of 128.
StoreSetChannel ==
  \E f \in 1..Len(frames), y \in 0..(height - 1), x \in 0..(width - 1),
     c \in 1..3, v \in {127, 128} :
    /\ (v >= 128) # (frames[f][y][x][c] >= 128)
    /\ Stored([frames EXCEPT ![f][y][x][c] = v],
              [NoTamper EXCEPT !.kind = "channel", !.f = f, !.y = y, !.x = x,
                               !.c = c, !.v = v])

\* The last frame is missing.
StoreDropLast ==
  /\ frames # <<>>
  /\ Stored(SubSeq(frames, 1, Len(frames) - 1),
            [NoTamper EXCEPT !.kind = "droplast"])

\* Frames an over-supplying storage may append: black, white, or a frame
\* with alternating channels.
ExtraFrames ==
  { [y \in 0..(height - 1) |-> [x \in 0..(width - 1) |-> <<0, 0, 0>>]],
    [y \in 0..(height - 1) |-> [x \in 0..(width - 1) |-> <<255, 255, 255>>]],
    [y \in 0..(height - 1) |-> [x \in 0..(width - 1) |-> <<255, 0, 128>>]] }

\* Extra frames follow the encoded ones.
StoreAppend ==
  \E n \in 1..MaxExtra, e \in ExtraFrames :
    Stored(frames \o [k \in 1..n |-> e],
           [NoTamper EXCEPT !.kind = "append", !.f = n])

RECURSIVE Chunked(_, _, _, _)
\* The bit string laid out in frames of w x h cells, from offset `from`.
Chunked(w, h, bits, from) ==
  IF from >= Len(bits) THEN <<>>
  ELSE <<bits_to_fractal_frame(w, h, Slice(bits, from, from + (w * h) * 3))>>
         \o Chunked(w, h, bits, from + (w * h) * 3)

\* Magic markers of a file that some other program wrote.
ForgedMagics == {Magic, <<70, 79, 76, 69>>, <<198, 79, 76, 68>>}

\* LENGTH fields of such a file, around the true payload length.
ForgedLengths ==
  {PyInt(n) : n \in 0..(Len(data) + 1)} \cup {[hi |-> 32768, lo |-> 0]}

\* CHECKSUM fields of such a file: the payload's CRC-32 and two others.
ForgedChecksums ==
  LET good == crc32(data)
  IN  {good, [good EXCEPT !.lo = (good.lo + 1) % 65536],
             [good EXCEPT !.hi = (good.hi + 32768) % 65536]}

\* A file not written by this encoder: any header in front of the payload.
StoreForged ==
  \E m \in ForgedMagics, l \in ForgedLengths, k \in ForgedChecksums :
    Stored(Chunked(width, height,
                   FlattenBytes(m, 1) \o Format32(l) \o Format32(k)
                     \o FlattenBytes(data, 1), 0),
           [NoTamper EXCEPT !.kind = "forged", !.magic = m, !.length = l,
                            !.checksum = k])

\* A video without a single frame.
StoreEmpty == Stored(<<>>, [NoTamper EXCEPT !.kind = "empty"])

(* ------------------------------ decoding ------------------------------ *)

\* decoder.decode_pixels_to_data(video) on a codec of the encoder's
\* dimensions.
Decode ==
  /\ pc = "stored"
  /\ result' = decode_pixels_to_data(width, height, video)
  /\ pc' = "decoded"
  /\ UNCHANGED <<width, height, data, bit_string, i, frames, raised, video,
                 tamper, opened>>

\* retrieve(path) on the file that _write_video made of `video` (every frame
\* converted RGB -> BGR), which cv2 can or cannot open.
Retrieve ==
  /\ pc = "stored"
  /\ opened' \in BOOLEAN
  /\ result' = retrieve(opened', [k \in 1..Len(video) |-> cvtColor(video[k])])
  /\ pc' = "retrieved"
  /\ UNCHANGED <<width, height, data, bit_string, i, frames, raised, video,
                 tamper>>

Next ==
  \/ EncodeBegin
  \/ EncodeYield
  \/ EncodeStop
  \/ StoreLossless
  \/ StoreDrift
  \/ StoreSetChannel
  \/ StoreDropLast
  \/ StoreAppend
  \/ StoreForged
  \/ StoreEmpty
  \/ Decode
  \/ Retrieve

Spec == Init /\ [][Next]_vars

(* ------------------------- vocabulary of the claims ------------------- *)

\* The dimensions can hold the 96-bit header in one frame.
Valid == Capacity >= 96

\* Length of MAGIC || LENGTH || CHECKSUM || PAYLOAD_BITS for the payload.
StreamBits == 96 + 8 * Len(data)

CeilDiv(a, b) == (a + b - 1) \div b

\* The error kinds, as the codec reports them (ValueError and a message).
FormatError     == Raise("ValueError", "Invalid FOLD file format")
TruncationError == Raise("ValueError", "Incomplete data")
IntegrityError  == Raise("ValueError", "Data corruption detected - checksum mismatch")

\* The same conditions as retrieve reports them.
Wrapped(e) == Raise("FileCorruptionError", "Data corruption detected: " \o e.msg)

\* The error kind a caller reads off an outcome.
Kind(o) ==
  CASE o.exc = "none" -> "ok"
    [] o = FormatError \/ o = Wrapped(FormatError) -> "FormatError"
    [] o = TruncationError \/ o = Wrapped(TruncationError) -> "TruncationError"
    [] o = IntegrityError \/ o = Wrapped(IntegrityError) -> "IntegrityError"
    [] OTHER -> "unclassified"

\* Position in the bit stream of the channel StoreSetChannel changed.
TamperPos ==
  (tamper.f - 1) * Capacity + 3 * (tamper.y * width + tamper.x) + (tamper.c - 1)

\* C1: for every payload (the empty one included) and dimensions with
\* width*height*3 >= 96, decoding the complete, in-order frames of the
\* encoder on a codec of the same dimensions returns exactly the payload.
RoundTrip ==
  (pc = "decoded" /\ tamper.kind = "lossless" /\ Valid) => result = Return(data)

RoundTripWitness ==
  /\ pc = "decoded" /\ tamper.kind = "lossless" /\ Valid
  /\ Len(data) >= 1 /\ Len(frames) = 2
  /\ result = Return(data)

\* C2: whenever width*height*3 < 96, encoding fails with a
\* ConfigurationError before any frame is produced.
ConfigurationErrorBelowHeader ==
  Capacity < 96 =>
    /\ frames = <<>>
    /\ pc \notin {"start", "encoding"} => raised = "ConfigurationError"

\* C3 as stated: changing any single channel of the encoder's output across
\* 128 makes decoding fail with the checksum-mismatch error, never return.
TamperAlwaysIntegrityError ==
  (pc = "decoded" /\ tamper.kind = "channel" /\ Valid) => result = IntegrityError

\* C3 as amended: a changed channel that carries a CHECKSUM or payload bit
\* gives the checksum-mismatch error, one that carries a MAGIC bit gives the
\* format error, and one that carries only padding leaves the decoded payload
\* unchanged; one that carries a LENGTH bit gives the truncation error, the
\* checksum-mismatch error, or a buffer of the altered length.  Outside the
\* LENGTH field decoding never returns other bytes than the payload.
TamperDetection ==
  (pc = "decoded" /\ tamper.kind = "channel" /\ Valid) =>
    /\ TamperPos \in 64..(StreamBits - 1) => result = IntegrityError
    /\ TamperPos \in 0..31 => result = FormatError
    /\ TamperPos >= StreamBits => result = Return(data)
    /\ TamperPos \in 32..63 =>
         \/ result \in {TruncationError, IntegrityError}
         \/ result.exc = "none" /\ Len(result.data) # Len(data)
    /\ (TamperPos \notin 32..63 /\ result.exc = "none") => result.data = data

TamperDetectionWitness ==
  /\ pc = "decoded" /\ tamper.kind = "channel" /\ Valid
  /\ TamperPos \in 96..(StreamBits - 1)
  /\ result = IntegrityError

\* The removed last frame held at least one payload bit.
LastFrameCarriesPayload ==
  /\ Len(data) > 0
  /\ (Len(frames) - 1) * Capacity < StreamBits
  /\ Len(frames) * Capacity > 96

\* C4: removing the last encoded frame yields the truncation error whenever
\* that frame carried payload bits (a single-frame output included), and
\* decoding succeeds after the removal only if it carried none.
TruncationDetection ==
  (pc = "decoded" /\ tamper.kind = "droplast" /\ Valid) =>
    /\ LastFrameCarriesPayload => result = TruncationError
    /\ result.exc = "none" => ~LastFrameCarriesPayload

\* What the decoder reads off the stored frames.
VideoBits == ConcatFrameBits(width, height, video, 1)

MagicGood(bits) == Slice(bits, 0, 32) = FlattenBytes(Magic, 1)

\* The declared length fits in the bits that follow the header.
LengthGood(bits) ==
  ~LessThanTimes8(Len(bits) - 96, IntOfBits(Slice(bits, 32, 64)))

\* The CRC-32 of the declared payload bytes equals the CHECKSUM field.
ChecksumGood(bits) ==
  LET declared == IntOfBits(Slice(bits, 32, 64))
      payload  == Slice(SliceFrom(bits, 96), 0,
                        8 * (declared.hi * 65536 + declared.lo))
  IN  crc32(BytesOfBits(payload, 0)) = IntOfBits(Slice(bits, 64, 96))

\* The outcome the order magic, length, checksum prescribes for a stream.
ExpectedKind(bits) ==
  IF ~MagicGood(bits) THEN "FormatError"
  ELSE IF ~LengthGood(bits) THEN "TruncationError"
  ELSE IF ~ChecksumGood(bits) THEN "IntegrityError"
  ELSE "ok"

\* C5: the failure kinds are told apart and checked in the order magic,
\* length, checksum: a bad magic gives the format error whatever the other
\* fields hold, a good magic with too long a declared length the truncation
\* error, a good magic and length with a CRC mismatch the integrity error;
\* the codec reports them as three different ValueErrors and retrieve as
\* three different FileCorruptionErrors.
FailureKindsDistinct ==
  (pc \in {"decoded", "retrieved"} /\ opened /\ Valid /\ video # <<>>) =>
    LET expected == ExpectedKind(VideoBits)
    IN  /\ Kind(result) = expected
        /\ result.exc =
             IF expected = "ok" THEN "none"
             ELSE IF pc = "decoded" THEN "ValueError"
             ELSE "FileCorruptionError"

FailureKindsDistinctWitness ==
  /\ pc = "retrieved" /\ opened /\ Valid /\ tamper.kind = "forged"
  /\ tamper.magic # Magic
  /\ tamper.length.hi > 0
  /\ tamper.checksum # crc32(data)
  /\ result = Wrapped(FormatError)

\* C6: decoding no frames at all is reported as corruption: by the codec as
\* its corruption error, by retrieve as FileCorruptionError.
EmptyInputIsCorruption ==
  /\ (pc = "decoded" /\ video = <<>>) => Kind(result) = "IntegrityError"
  /\ (pc = "retrieved" /\ opened /\ video = <<>>) =>
       result.exc = "FileCorruptionError"

\* C7: every channel the encoder writes is 0 or 255: bit k of a chunk is in
\* channel k mod 3 of the cell with row-major index k div 3, 255 for a one
\* and 0 for a zero, and every channel past the end of the bit stream is 0.
EncodedLevels ==
  \A f \in 1..Len(frames) : \A k \in 0..(Capacity - 1) :
    LET cell == k \div 3
        pos  == (f - 1) * Capacity + k
        chan == frames[f][cell \div width][cell % width][(k % 3) + 1]
    IN  /\ chan \in {0, 255}
        /\ chan = IF pos < Len(bit_string) /\ bit_string[pos + 1] = 1
                  THEN 255 ELSE 0

EncodedLevelsWitness ==
  /\ pc = "encoded" /\ Valid /\ Len(frames) = 2
  /\ Len(frames) * Capacity > Len(bit_string)
  /\ frames[2][0][0] = <<0, 255, 255>>

\* A frame with every channel moved to the extreme of its side of 128.
Canonical(frame) ==
  [y \in DOMAIN frame |->
    [x \in DOMAIN frame[y] |->
      [c \in 1..3 |-> IF frame[y][x][c] >= 128 THEN 255 ELSE 0]]]

\* C8: the outcome of decoding depends only on the side of 128 each channel
\* lies on: any frames decode as their canonical 0/255 form does, and the
\* encoder's output with every 255 moved into 128..255 and every 0 into
\* 0..127 still decodes to the payload.
ThresholdTolerance ==
  (pc = "decoded" /\ Valid) =>
    /\ result = decode_pixels_to_data(width, height,
                  [k \in 1..Len(video) |-> Canonical(video[k])])
    /\ tamper.kind = "drift" => result = Return(data)

ThresholdToleranceWitness ==
  /\ pc = "decoded" /\ Valid /\ tamper.kind = "drift"
  /\ Len(data) >= 1
  /\ \E y \in 0..(height - 1), x \in 0..(width - 1) :
       128 \in {video[1][y][x][c] : c \in 1..3}
  /\ \E y \in 0..(height - 1), x \in 0..(width - 1) :
       127 \in {video[1][y][x][c] : c \in 1..3}
  /\ result = Return(data)

\* C9: for a payload of L bytes and capacity >= 96 the encoder yields exactly
\* ceil((96 + 8L) / capacity) frames, in bit-stream order; the empty payload
\* yields exactly one frame.
FrameCount ==
  (pc = "encoded" /\ Valid) =>
    /\ Len(frames) = CeilDiv(StreamBits, Capacity)
    /\ data = <<>> => Len(frames) = 1
    /\ Slice(ConcatFrameBits(width, height, frames, 1), 0, StreamBits)
         = prepare_bit_string(data)

FrameCountWitness ==
  /\ pc = "encoded" /\ Valid
  /\ Len(data) >= 1
  /\ Len(frames) = 2 /\ CeilDiv(StreamBits, Capacity) = 2

\* C10: decoding reads exactly the 8L bits after the header and ignores the
\* rest: extra frames appended to the encoder's output, or a changed channel
\* that carries only padding, still decode to exactly the payload.
IgnoresTrailingBits ==
  (pc = "decoded" /\ Valid) =>
    /\ tamper.kind = "append" => result = Return(data)
    /\ (tamper.kind = "channel" /\ TamperPos >= StreamBits) =>
         result = Return(data)

IgnoresTrailingBitsWitness ==
  /\ pc = "decoded" /\ Valid /\ tamper.kind = "append"
  /\ Len(data) >= 1
  /\ video[Len(video)][0][0] = <<255, 255, 255>>
  /\ result = Return(data)

====
